---- MODULE Spec2Model ----
(***************************************************************************)
(* Model of the voice-conversation relay (backend.py, tts_service.py).     *)
(*                                                                         *)
(* The server is a single-threaded cooperative event loop.  A coroutine    *)
(* runs without interruption between two await points; `loop` names the    *)
(* coroutine that currently owns the event loop ("idle" when every         *)
(* coroutine is suspended).  Calls handed to run_in_executor run on a      *)
(* pool thread and need not own the loop.                                  *)
(*                                                                         *)
(* Two coroutines are modelled: "ws", the realtime channel handler, and    *)
(* "h1", a handler that serves one request/response route at a time.       *)
(*                                                                         *)
(* Text is a sequence of one-character strings; the two fixed reply        *)
(* strings of the generator are one-element sequences.                     *)
(*                                                                         *)
(* `log`, `sent` and `resp` record what the current (or last) invocation   *)
(* did; the client takes them away (TurnDelivered, ResponseDelivered)      *)
(* before the next invocation starts.  With overlap = FALSE, as in Spec,   *)
(* a request and a channel turn do not run at the same time.               *)
(*                                                                         *)
(* Five specifications share the actions.  Spec serves requests and        *)
(* channel turns one after the other; SpecFair is Spec with weak fairness  *)
(* on the steps of the channel handler inside a turn.  SpecOverlap lets a  *)
(* request and a turn interleave at every await.  SpecCompose fixes the    *)
(* behaviour of the three backends as functions of their input and drives  *)
(* the handlers with a scripted client; SpecTwin does the same for the two *)
(* synthesize routes.  File-system calls on the temporary directory        *)
(* (create, read, unlink) are taken to succeed.                            *)
(***************************************************************************)
EXTENDS Integers, Sequences, FiniteSets, TLC

\* ---------------------------------------------------------------- bounds
MaxTurns == 2        \* inbound binary frames accepted on the channel
MaxRequests == 1     \* requests served by the route handler
MaxOverlapTurns == 1 \* frames accepted while requests may overlap the turn

\* ------------------------------------------------------ program constants
chunk_size == 8192

Procs == {"ws", "h1"}
Routes == {"transcribe", "chat", "synthesize", "tts", "voice_chat", "voice_chat_complete"}

None == "None"
Loaded == "WhisperModel"

NoKeyReply == <<"I'm sorry, the AI service is not configured. Please set GEMINI_API_KEY.">>
ErrorReply == <<"I'm sorry, I encountered an error processing your request.">>

\* ------------------------------------------------------------ input sets
Payloads == {<<>>, <<"R", "I", "F", "F">>}
SegmentLists == {<<>>, << <<" ", "h", "i">> >>, << <<" ", "h", "i">>, <<" ">> >>}
RawReplies == {<<" ">>, <<"o", "k", " ">>}
RequestTexts == {<<>>, <<" ">>, <<"h", "i">>}
ApiKeys == {None, "", "key"}
AudioLens == {1, chunk_size, chunk_size + 1}

\* ---------------------------------------------------------- text helpers
IsSpace(c) == c = " "

RECURSIVE LStrip(_)
LStrip(s) == IF s = <<>> THEN <<>>
             ELSE IF IsSpace(Head(s)) THEN LStrip(Tail(s)) ELSE s

RECURSIVE RStrip(_)
RStrip(s) == IF s = <<>> THEN <<>>
             ELSE IF IsSpace(s[Len(s)]) THEN RStrip(SubSeq(s, 1, Len(s) - 1)) ELSE s

\* str.strip()
Strip(s) == RStrip(LStrip(s))

\* " ".join(parts)
RECURSIVE Join(_)
Join(parts) == IF parts = <<>> THEN <<>>
               ELSE IF Len(parts) = 1 THEN Head(parts)
               ELSE Head(parts) \o <<" ">> \o Join(Tail(parts))

\* Python truthiness of an optional string
Falsy(s) == s = None \/ s = ""

\* ------------------------------------------------------------ exceptions
NoExc == [type |-> "none", status |-> 0, detail |-> "", cause |-> ""]
HTTPException(code, msg, orig) ==
    [type |-> "HTTPException", status |-> code, detail |-> msg, cause |-> orig]
Raised(t, msg) == [type |-> t, status |-> 0, detail |-> msg, cause |-> ""]

\* ----------------------------------------------------------- file system
NoPath == 0
Names == 1 .. (2 * (MaxTurns + MaxRequests))
Absent == [kind |-> "absent", data |-> <<>>, len |-> 0]
EmptyFile == [kind |-> "empty", data |-> <<>>, len |-> 0]
Upload(b) == [kind |-> "upload", data |-> b, len |-> Len(b)]
Wav(t, n) == [kind |-> "wav", data |-> t, len |-> n]

\* -------------------------------------------------- deterministic backends
\* a backend whose behaviour is a function of its input: what the recognizer
\* does with each payload, what the remote model does with each prompt, what
\* the executable does
Transcripts == {Strip(Join(segs)) : segs \in SegmentLists}

SttOutcomes == {[ok |-> FALSE, segments |-> <<>>]}
                 \cup {[ok |-> TRUE, segments |-> segs] : segs \in SegmentLists}

LlmOutcomes == {[ok |-> FALSE, raw |-> <<>>]}
                 \cup {[ok |-> TRUE, raw |-> r] : r \in RawReplies}

TtsOutcomes ==
    {[launched |-> FALSE, returncode |-> 0, stdout |-> "", stderr |-> "",
      kind |-> "absent", len |-> 0],
     [launched |-> TRUE, returncode |-> 1, stdout |-> "", stderr |-> "no voice",
      kind |-> "absent", len |-> 0],
     [launched |-> TRUE, returncode |-> 0, stdout |-> "", stderr |-> "",
      kind |-> "absent", len |-> 0],
     [launched |-> TRUE, returncode |-> 0, stdout |-> "", stderr |-> "",
      kind |-> "empty", len |-> 0]}
    \cup {[launched |-> TRUE, returncode |-> 0, stdout |-> "", stderr |-> "",
           kind |-> "wav", len |-> n] : n \in {1, chunk_size + 1}}

Backends == [stt : [Payloads -> SttOutcomes], llm : [Transcripts -> LlmOutcomes],
             tts : TtsOutcomes]

NoBackend == [stt |-> [b \in Payloads |-> [ok |-> FALSE, segments |-> <<>>]],
              llm |-> [t \in Transcripts |-> [ok |-> FALSE, raw |-> <<>>]],
              tts |-> [launched |-> FALSE, returncode |-> 0, stdout |-> "",
                       stderr |-> "", kind |-> "absent", len |-> 0]]

\* ------------------------------------------------------------ subprocess
\* what the executable may write to its standard output and standard error
Streams == {"", "no voice"}

NoProc == [ran |-> FALSE, returncode |-> 0, stdout |-> "", stderr |-> ""]

\* the CompletedProcess of subprocess.run(..., check=False)
Completed(rc, out, err) == [ran |-> TRUE, returncode |-> rc, stdout |-> out, stderr |-> err]

\* {s!r} of an f-string
Repr(s) == "'" \o s \o "'"

VARIABLES
    phase,              \* "startup", "running", "failed", "stopped"
    WHISPER_AVAILABLE,  \* import of the recognition backend succeeded
    whisper_model,      \* process-wide recognition handle
    GEMINI_API_KEY,     \* generation credential
    exeExists,          \* PIPER_EXE_PATH.exists()
    modelExists,        \* PIPER_MODEL_PATH.exists()
    files,              \* temporary directory: name -> content
    overlap,            \* requests may arrive while a channel turn is running
    loop,               \* owner of the event loop
    pc,                 \* position of each coroutine
    route,              \* route served by each coroutine
    audio_data,         \* uploaded / received payload
    text,               \* text handed to the generator or synthesizer
    transcription,
    llm_response,
    audio_response,     \* bytes returned by synthesize_speech
    tmp_path,           \* temporary file of transcribe_audio
    out_path,           \* output file of speak
    exc,                \* exception in flight
    speakExc,           \* exception raised by tts_service.speak
    proc,               \* result of subprocess.run in speak
    resp,               \* response of the route handler
    channel,            \* "Open" until receive or the error send raises
    connected,          \* the client end of the channel is still there
    sent,               \* messages sent in the current channel turn
    i,                  \* chunk offset of the channel's send loop
    log,                \* adapter events of the current request / turn
    turns,
    requests,
    backend,            \* fixed behaviour of the three backends (SpecCompose)
    calls               \* requests made and responses read by the scripted client

cfgVars == <<WHISPER_AVAILABLE, GEMINI_API_KEY, exeExists, modelExists, overlap>>
wsVars == <<channel, connected, sent, i, turns>>
scriptVars == <<backend, calls>>
localVars == <<audio_data, text, transcription, llm_response, audio_response,
               tmp_path, out_path, exc, speakExc, proc>>
vars == <<phase, whisper_model, cfgVars, scriptVars, files, loop, pc, route, localVars,
          resp, wsVars, log, requests>>

NoResp == [status |-> 0, text |-> <<>>, transcription |-> <<>>,
           audio |-> EmptyFile, detail |-> NoExc]

\* the state of the process and of its two coroutines when the server starts
Boot ==
    /\ phase = "startup"
    /\ whisper_model = None
    /\ files = [n \in Names |-> Absent]
    /\ loop = "idle"
    /\ pc = [p \in Procs |-> IF p = "ws" THEN "recv" ELSE "idle"]
    /\ route = [p \in Procs |-> IF p = "ws" THEN "ws" ELSE "none"]
    /\ audio_data = [p \in Procs |-> <<>>]
    /\ text = [p \in Procs |-> <<>>]
    /\ transcription = [p \in Procs |-> <<>>]
    /\ llm_response = [p \in Procs |-> <<>>]
    /\ audio_response = [p \in Procs |-> EmptyFile]
    /\ tmp_path = [p \in Procs |-> NoPath]
    /\ out_path = [p \in Procs |-> NoPath]
    /\ exc = [p \in Procs |-> NoExc]
    /\ speakExc = [p \in Procs |-> NoExc]
    /\ proc = [p \in Procs |-> NoProc]
    /\ resp = NoResp
    /\ channel = "Open"
    /\ connected = TRUE
    /\ sent = <<>>
    /\ i = 0
    /\ log = [p \in Procs |-> <<>>]
    /\ turns = 0
    /\ requests = 0
    /\ calls = <<>>

Init ==
    /\ Boot
    /\ WHISPER_AVAILABLE \in BOOLEAN
    /\ GEMINI_API_KEY \in ApiKeys
    /\ exeExists \in BOOLEAN
    /\ modelExists \in BOOLEAN
    /\ overlap = FALSE
    /\ backend = NoBackend

\* ------------------------------------------------------------- helpers
AwaitPcs == {"recv", "await_transcribe", "await_generate", "speak", "subprocess.run",
             "await_speak", "send_text", "send_chunk", "send_complete", "send_error"}

\* the event loop is released when the coroutine reaches an await
LoopAfter(p, newpc) == IF newpc \in AwaitPcs THEN "idle" ELSE p

\* variant: every temporary file gets the same name
FreshName_Fixed == CHOOSE n \in Names : \A m \in Names : n <= m

\* tempfile.NamedTemporaryFile(delete=False): a name no existing file has
FreshName == CHOOSE n \in Names :
                 /\ files[n] = Absent
                 /\ \A m \in Names : m < n => files[m] # Absent

Logged(p, events) == log' = [log EXCEPT ![p] = @ \o events]

\* variant: every caller hands the request's text field to the generator
UserText_RequestField(p) == text[p]

\* argument of generate_llm_response at its call site
UserText(p) == IF route[p] = "chat" THEN text[p] ELSE transcription[p]

\* argument of speak at its call site
SpeakText(p) == IF route[p] \in {"synthesize", "tts"} THEN text[p] ELSE llm_response[p]

\* variant: the reply is never generated
AfterTranscribe_SkipGenerate(r) == IF r = "transcribe" THEN "respond" ELSE "synthesize_speech"

\* the statement that follows `await transcribe_audio(...)` in each caller
AfterTranscribe(r) == IF r = "transcribe" THEN "respond" ELSE "generate_llm_response"

\* variant: the voice-chat route goes on to synthesize the reply
AfterGenerate_AlwaysSynthesize(r) ==
    CASE r = "chat" -> "respond"
      [] r \in {"voice_chat", "voice_chat_complete"} -> "synthesize_speech"
      [] OTHER -> "send_text"

\* variant: the channel handler synthesizes before it sends the text
AfterGenerate_SynthesizeFirst(r) ==
    CASE r \in {"chat", "voice_chat"} -> "respond"
      [] OTHER -> "synthesize_speech"

\* the statement that follows `await generate_llm_response(...)` in each caller
AfterGenerate(r) ==
    CASE r \in {"chat", "voice_chat"} -> "respond"
      [] r = "voice_chat_complete" -> "synthesize_speech"
      [] OTHER -> "send_text"

\* variant: the channel never streams the audio
AfterSynthesize_NoAudio(r, audio) == IF r = "ws" THEN "send_complete" ELSE "respond"

\* the statement that follows `await synthesize_speech(...)` in each caller;
\* range(0, len(audio_response), chunk_size) is empty for empty audio
AfterSynthesize(r, audio) ==
    IF r = "ws" THEN (IF 0 < audio.len THEN "send_chunk" ELSE "send_complete")
    ELSE "respond"

\* ------------------------------------------------------------ lifespan
\* lifespan(), before the yield: load_whisper_model and initialize_gemini
Startup ==
    /\ phase = "startup"
    /\ \E loadOk \in BOOLEAN, configureOk \in BOOLEAN :
         /\ whisper_model' = IF WHISPER_AVAILABLE /\ loadOk THEN Loaded ELSE whisper_model
         /\ phase' = IF (WHISPER_AVAILABLE /\ ~loadOk)
                        \/ (~Falsy(GEMINI_API_KEY) /\ ~configureOk)
                     THEN "failed" ELSE "running"
    /\ UNCHANGED <<cfgVars, scriptVars, files, loop, pc, route, localVars, resp, wsVars,
                   log, requests>>

\* lifespan(), after the yield; the server drains its connections first
Shutdown ==
    /\ phase = "running"
    /\ pc["h1"] = "idle"
    /\ pc["ws"] = "closed"
    /\ phase' = "stopped"
    /\ whisper_model' = None
    /\ UNCHANGED <<cfgVars, scriptVars, files, loop, pc, route, localVars, resp, wsVars,
                   log, requests>>

\* ------------------------------------------------------ route handlers
FirstPc(r) ==
    CASE r \in {"transcribe", "voice_chat", "voice_chat_complete"} -> "transcribe_audio"
      [] r = "chat" -> "generate_llm_response"
      [] r = "synthesize" -> "synthesize_speech"
      [] OTHER -> "tts_mktemp"

\* the locals of a handler invocation: fresh at its start, gone at its end
Locals(p, payload, reqText) ==
    /\ audio_data' = [audio_data EXCEPT ![p] = payload]
    /\ text' = [text EXCEPT ![p] = reqText]
    /\ transcription' = [transcription EXCEPT ![p] = <<>>]
    /\ llm_response' = [llm_response EXCEPT ![p] = <<>>]
    /\ audio_response' = [audio_response EXCEPT ![p] = EmptyFile]
    /\ tmp_path' = [tmp_path EXCEPT ![p] = NoPath]
    /\ out_path' = [out_path EXCEPT ![p] = NoPath]
    /\ exc' = [exc EXCEPT ![p] = NoExc]
    /\ speakExc' = [speakExc EXCEPT ![p] = NoExc]
    /\ proc' = [proc EXCEPT ![p] = NoProc]

\* the client has read the response of its request
ResponseDelivered(p) ==
    /\ p = "h1"
    /\ pc[p] = "idle"
    /\ resp # NoResp
    /\ resp' = NoResp
    /\ route' = [route EXCEPT ![p] = "none"]
    /\ log' = [log EXCEPT ![p] = <<>>]
    /\ UNCHANGED <<phase, whisper_model, cfgVars, scriptVars, files, loop, pc, localVars, wsVars,
                   requests>>

\* a request arrives at one of the routes
StartRequest(p) ==
    /\ p = "h1"
    /\ phase = "running"
    /\ pc[p] = "idle"
    /\ loop = "idle"
    /\ requests < MaxRequests
    /\ overlap \/ (pc["ws"] \in {"recv", "closed"} /\ sent = <<>> /\ log["ws"] = <<>>)
    /\ resp = NoResp
    /\ \E r \in Routes :
         /\ route' = [route EXCEPT ![p] = r]
         /\ pc' = [pc EXCEPT ![p] = FirstPc(r)]
         /\ IF r \in {"transcribe", "voice_chat", "voice_chat_complete"}
            THEN \E b \in Payloads : Locals(p, b, <<>>)
            ELSE \E t \in RequestTexts : Locals(p, <<>>, t)
    /\ log' = [log EXCEPT ![p] = <<>>]
    /\ loop' = p
    /\ resp' = NoResp
    /\ requests' = requests + 1
    /\ UNCHANGED <<phase, whisper_model, cfgVars, scriptVars, files, wsVars>>

\* base64.b64encode(audio).decode('utf-8'): four characters for every three
\* bytes, the last group padded; the content of the audio stays abstract
B64Encode(audio) ==
    [kind |-> "base64", data |-> audio.data, len |-> 4 * ((audio.len + 2) \div 3)]

\* the success return of each route
Response(p) ==
    CASE route[p] = "transcribe" ->
           [NoResp EXCEPT !.status = 200, !.text = transcription[p]]
      [] route[p] = "chat" ->
           [NoResp EXCEPT !.status = 200, !.text = llm_response[p]]
      [] route[p] \in {"synthesize", "tts"} ->
           [NoResp EXCEPT !.status = 200, !.audio = audio_response[p]]
      [] route[p] = "voice_chat" ->
           [NoResp EXCEPT !.status = 200, !.transcription = transcription[p],
                          !.text = llm_response[p]]
      [] OTHER ->
           [NoResp EXCEPT !.status = 200, !.transcription = transcription[p],
                          !.text = llm_response[p],
                          !.audio = B64Encode(audio_response[p])]

RouteRespond(p) ==
    /\ route[p] \in Routes
    /\ pc[p] = "respond"
    /\ loop = p
    /\ resp' = Response(p)
    /\ pc' = [pc EXCEPT ![p] = "idle"]
    /\ loop' = "idle"
    /\ Locals(p, <<>>, <<>>)
    /\ UNCHANGED <<phase, whisper_model, cfgVars, scriptVars, files, route, wsVars, log, requests>>

\* variant: the except clause answers with what the handler has so far
RouteExcept_Partial(p) ==
    /\ route[p] \in Routes
    /\ pc[p] = "raised"
    /\ loop = p
    /\ resp' = Response(p)
    /\ pc' = [pc EXCEPT ![p] = "idle"]
    /\ loop' = "idle"
    /\ Locals(p, <<>>, <<>>)
    /\ UNCHANGED <<phase, whisper_model, cfgVars, scriptVars, files, route, wsVars, log, requests>>

\* `except Exception as e: raise HTTPException(status_code=500, detail=str(e))`
RouteExcept(p) ==
    /\ route[p] \in Routes
    /\ pc[p] = "raised"
    /\ loop = p
    /\ resp' = [NoResp EXCEPT !.status = 500, !.detail = exc[p]]
    /\ pc' = [pc EXCEPT ![p] = "idle"]
    /\ loop' = "idle"
    /\ Locals(p, <<>>, <<>>)
    /\ UNCHANGED <<phase, whisper_model, cfgVars, scriptVars, files, route, wsVars, log, requests>>

\* ------------------------------------------------- transcribe_audio
\* variant: the handle is not checked
HandleMissing_Never == FALSE

\* `if whisper_model is None`
HandleMissing == whisper_model = None

\* variant: a missing handle is loaded by the first request that needs it
TranscribeBegin_LazyLoad(p) ==
    /\ pc[p] = "transcribe_audio"
    /\ loop = p
    /\ whisper_model' = Loaded
    /\ files' = [files EXCEPT ![FreshName] = Upload(audio_data[p])]
    /\ tmp_path' = [tmp_path EXCEPT ![p] = FreshName]
    /\ pc' = [pc EXCEPT ![p] = "await_transcribe"]
    /\ loop' = "idle"
    /\ Logged(p, <<"transcribe_audio", "tmp_written", "whisper.transcribe">>)
    /\ UNCHANGED <<phase, cfgVars, scriptVars, route, audio_data, text, transcription,
                   llm_response, audio_response, out_path, exc, speakExc, proc, resp,
                   wsVars, requests>>

\* transcribe_audio up to `await loop.run_in_executor(...)`
TranscribeBegin(p) ==
    /\ pc[p] = "transcribe_audio"
    /\ loop = p
    /\ IF HandleMissing
       THEN /\ exc' = [exc EXCEPT ![p] = HTTPException(503, "Whisper model not loaded", "")]
            /\ pc' = [pc EXCEPT ![p] = "raised"]
            /\ Logged(p, <<"transcribe_audio", "transcribe_audio:raise">>)
            /\ UNCHANGED <<files, tmp_path, loop>>
       ELSE /\ files' = [files EXCEPT ![FreshName] = Upload(audio_data[p])]
            /\ tmp_path' = [tmp_path EXCEPT ![p] = FreshName]
            /\ pc' = [pc EXCEPT ![p] = "await_transcribe"]
            /\ loop' = "idle"
            /\ Logged(p, <<"transcribe_audio", "tmp_written", "whisper.transcribe">>)
            /\ UNCHANGED exc
    /\ UNCHANGED <<phase, whisper_model, cfgVars, scriptVars, route, audio_data, text, transcription,
                   llm_response, audio_response, out_path, speakExc, proc, resp, wsVars,
                   requests>>

\* the executor call has finished and the coroutine resumes: join the segments,
\* unlink the temporary file, return; or the except clause
TranscribeResume(p) ==
    /\ pc[p] = "await_transcribe"
    /\ loop = "idle"
    /\ \/ /\ exc' = [exc EXCEPT ![p] = HTTPException(500, "Transcription failed", "backend")]
          /\ pc' = [pc EXCEPT ![p] = "raised"]
          /\ Logged(p, <<"transcribe_audio:raise">>)
          /\ UNCHANGED <<files, transcription>>
       \/ \E segments \in SegmentLists :
            /\ transcription' = [transcription EXCEPT ![p] = Strip(Join(segments))]
            /\ files' = [files EXCEPT ![tmp_path[p]] = Absent]
            /\ pc' = [pc EXCEPT ![p] = AfterTranscribe(route[p])]
            /\ Logged(p, <<"transcribe_audio:return">>)
            /\ UNCHANGED exc
    /\ loop' = p
    /\ UNCHANGED <<phase, whisper_model, cfgVars, scriptVars, route, audio_data, text,
                   llm_response, audio_response, tmp_path, out_path, speakExc, proc, resp,
                   wsVars, requests>>

\* --------------------------------------------- generate_llm_response
\* generate_llm_response returns `reply` to its caller
GenerateReturns(p, reply, events) ==
    /\ llm_response' = [llm_response EXCEPT ![p] = reply]
    /\ pc' = [pc EXCEPT ![p] = AfterGenerate(route[p])]
    /\ loop' = LoopAfter(p, AfterGenerate(route[p]))
    /\ Logged(p, events \o <<"generate_llm_response:return">>)
    /\ UNCHANGED exc

\* variant: the except clause raises to the caller
GenerateFails_Reraise(p) ==
    /\ exc' = [exc EXCEPT ![p] = HTTPException(500, "LLM generation failed", "remote")]
    /\ pc' = [pc EXCEPT ![p] = "raised"]
    /\ loop' = p
    /\ Logged(p, <<"generate_content:raise", "generate_llm_response:raise">>)
    /\ UNCHANGED llm_response

\* `except Exception as e:` of generate_llm_response: log, return the apology
GenerateFails(p) ==
    GenerateReturns(p, ErrorReply, <<"generate_content:raise">>)

\* variant: `if GEMINI_API_KEY is None`
NotConfigured_NoneOnly == GEMINI_API_KEY = None

\* `if not GEMINI_API_KEY`
NotConfigured == Falsy(GEMINI_API_KEY)

\* generate_llm_response up to `await loop.run_in_executor(...)`
GenerateBegin(p) ==
    /\ pc[p] = "generate_llm_response"
    /\ loop = p
    /\ IF NotConfigured
       THEN GenerateReturns(p, NoKeyReply, <<"generate_llm_response">>)
       ELSE /\ pc' = [pc EXCEPT ![p] = "await_generate"]
            /\ loop' = "idle"
            /\ Logged(p, <<"generate_llm_response", "generate_content">>)
            /\ UNCHANGED <<llm_response, exc>>
    /\ UNCHANGED <<phase, whisper_model, cfgVars, scriptVars, files, route, audio_data, text,
                   transcription, audio_response, tmp_path, out_path, speakExc, proc,
                   resp, wsVars, requests>>

\* the remote call has finished: response.text.strip(), or the except clause
GenerateResume(p) ==
    /\ pc[p] = "await_generate"
    /\ loop = "idle"
    /\ \/ GenerateFails(p)
       \/ \E raw \in RawReplies : GenerateReturns(p, Strip(raw), <<>>)
    /\ UNCHANGED <<phase, whisper_model, cfgVars, scriptVars, files, route, audio_data, text,
                   transcription, audio_response, tmp_path, out_path, speakExc, proc,
                   resp, wsVars, requests>>

\* ------------------------------------------------ tts_service.speak
\* speak runs on a pool thread for synthesize_speech and on the event loop
\* for the /tts route
SpeakMayRun(p) == IF route[p] = "tts" THEN loop = p ELSE TRUE

\* where the caller of speak continues when speak raises e
SpeakRaises(p, e) ==
    /\ speakExc' = [speakExc EXCEPT ![p] = e]
    /\ IF route[p] = "tts"
       THEN /\ exc' = [exc EXCEPT ![p] = e]
            /\ pc' = [pc EXCEPT ![p] = "raised"]
       ELSE /\ pc' = [pc EXCEPT ![p] = "await_speak"]
            /\ UNCHANGED exc

\* where the caller of speak continues when speak returns
SpeakReturns(p) ==
    /\ pc' = [pc EXCEPT ![p] = IF route[p] = "tts" THEN "tts_read" ELSE "await_speak"]
    /\ UNCHANGED <<exc, speakExc>>

\* variant: only the executable is looked for
ValidatePathsError_ExeOnly ==
    IF ~exeExists THEN Raised("FileNotFoundError", "Piper executable not found")
    ELSE NoExc

\* _validate_paths
ValidatePathsError ==
    IF ~exeExists THEN Raised("FileNotFoundError", "Piper executable not found")
    ELSE IF ~modelExists THEN Raised("FileNotFoundError", "Piper model not found")
    ELSE NoExc

\* variant: speak takes any text
TextIsBlank_Never(t) == FALSE

\* `if not text or not text.strip()`
TextIsBlank(t) == t = <<>> \/ Strip(t) = <<>>

\* speak up to subprocess.run: the text check, _validate_paths, the output file
SpeakBegin(p) ==
    /\ pc[p] = "speak"
    /\ SpeakMayRun(p)
    /\ IF TextIsBlank(SpeakText(p))
       THEN /\ SpeakRaises(p, Raised("ValueError", "text must be a non-empty string"))
            /\ Logged(p, <<"speak", "speak:raise">>)
            /\ UNCHANGED <<files, out_path>>
       ELSE IF ValidatePathsError # NoExc
       THEN /\ SpeakRaises(p, ValidatePathsError)
            /\ Logged(p, <<"speak", "speak:raise">>)
            /\ UNCHANGED <<files, out_path>>
       ELSE /\ IF out_path[p] # NoPath
               THEN UNCHANGED <<files, out_path>>
               ELSE /\ files' = [files EXCEPT ![FreshName] = EmptyFile]
                    /\ out_path' = [out_path EXCEPT ![p] = FreshName]
            /\ pc' = [pc EXCEPT ![p] = "subprocess.run"]
            /\ Logged(p, <<"speak", "subprocess.run">>)
            /\ UNCHANGED <<exc, speakExc>>
    /\ UNCHANGED <<phase, whisper_model, cfgVars, scriptVars, loop, route, audio_data, text,
                   transcription, llm_response, audio_response, tmp_path, proc, resp, wsVars,
                   requests>>

\* what the executable may leave at the output path when it exits with status 0
PiperOutputs(p) == {Absent, EmptyFile} \cup {Wav(SpeakText(p), n) : n \in AudioLens}

\* variant: the size of the output file is not checked
OutputInvalid_NoSizeCheck(out) == out = Absent

\* `if not out_path.exists() or out_path.stat().st_size == 0`
OutputInvalid(out) == out = Absent \/ out.len = 0

\* variant: the message leaves the captured error stream out
PiperFailedMsg_NoStderr(pr) ==
    "Piper failed (code=" \o ToString(pr.returncode) \o "). stdout: " \o Repr(pr.stdout)

\* f"Piper failed (code={proc.returncode}). stdout: {stdout!r} stderr: {stderr!r}"
PiperFailedMsg(pr) ==
    "Piper failed (code=" \o ToString(pr.returncode) \o "). stdout: " \o Repr(pr.stdout)
        \o " stderr: " \o Repr(pr.stderr)

\* subprocess.run and the checks that follow it
SpeakRun(p) ==
    /\ pc[p] = "subprocess.run"
    /\ SpeakMayRun(p)
    /\ \/ \* subprocess.run raised
          /\ SpeakRaises(p, Raised("PiperError", "Failed to execute Piper binary"))
          /\ UNCHANGED <<files, proc>>
       \/ \* returncode # 0: whatever was written is unlinked
          \E out \in Streams, err \in Streams :
            /\ proc' = [proc EXCEPT ![p] = Completed(1, out, err)]
            /\ files' = [files EXCEPT ![out_path[p]] = Absent]
            /\ SpeakRaises(p, Raised("PiperError", PiperFailedMsg(proc'[p])))
       \/ \* returncode = 0
          \E out \in PiperOutputs(p) :
            /\ proc' = [proc EXCEPT ![p] = Completed(0, "", "")]
            /\ files' = [files EXCEPT ![out_path[p]] = out]
            /\ IF OutputInvalid(out)
               THEN SpeakRaises(p, Raised("PiperError", "output file is missing or empty"))
               ELSE SpeakReturns(p)
    /\ Logged(p, IF speakExc'[p] = NoExc THEN <<"speak:return">> ELSE <<"speak:raise">>)
    /\ UNCHANGED <<phase, whisper_model, cfgVars, scriptVars, loop, route, audio_data, text,
                   transcription, llm_response, audio_response, tmp_path, out_path, resp,
                   wsVars, requests>>

\* ------------------------------------------------- synthesize_speech
\* synthesize_speech up to `await loop.run_in_executor(...)`
SynthesizeBegin(p) ==
    /\ pc[p] = "synthesize_speech"
    /\ loop = p
    /\ pc' = [pc EXCEPT ![p] = "speak"]
    /\ loop' = "idle"
    /\ Logged(p, <<"synthesize_speech">>)
    /\ UNCHANGED <<phase, whisper_model, cfgVars, scriptVars, files, route, localVars, resp,
                   wsVars, requests>>

\* variant: the except clause returns empty bytes
OnSynthesizeError_Swallow(r) == AfterSynthesize(r, EmptyFile)

\* `except Exception as e:` of synthesize_speech: raise HTTPException(500)
OnSynthesizeError(r) == "raised"

\* speak has finished and the coroutine resumes: read the file, unlink it,
\* return the bytes; or the except clause
SynthesizeResume(p) ==
    /\ pc[p] = "await_speak"
    /\ loop = "idle"
    /\ IF speakExc[p] # NoExc \/ files[out_path[p]] = Absent
       THEN /\ exc' = [exc EXCEPT ![p] =
                         HTTPException(500, "Speech synthesis failed",
                                       IF speakExc[p] # NoExc THEN speakExc[p].type
                                       ELSE "FileNotFoundError")]
            /\ pc' = [pc EXCEPT ![p] = OnSynthesizeError(route[p])]
            /\ loop' = LoopAfter(p, OnSynthesizeError(route[p]))
            /\ Logged(p, <<"synthesize_speech:raise">>)
            /\ UNCHANGED <<files, audio_response, i>>
       ELSE /\ audio_response' = [audio_response EXCEPT ![p] = files[out_path[p]]]
            /\ files' = [files EXCEPT ![out_path[p]] = Absent]
            /\ pc' = [pc EXCEPT ![p] = AfterSynthesize(route[p], files[out_path[p]])]
            /\ loop' = LoopAfter(p, AfterSynthesize(route[p], files[out_path[p]]))
            /\ i' = IF route[p] = "ws" THEN 0 ELSE i
            /\ Logged(p, <<"synthesize_speech:return">>)
            /\ UNCHANGED exc
    /\ UNCHANGED <<phase, whisper_model, cfgVars, scriptVars, route, audio_data, text,
                   transcription, llm_response, tmp_path, out_path, speakExc, proc, resp,
                   channel, connected, sent, turns, requests>>

\* ------------------------------------------------------ tts_endpoint
\* the temporary output file the /tts route creates before it calls speak
TtsMktemp(p) ==
    /\ route[p] = "tts"
    /\ pc[p] = "tts_mktemp"
    /\ loop = p
    /\ files' = [files EXCEPT ![FreshName] = EmptyFile]
    /\ out_path' = [out_path EXCEPT ![p] = FreshName]
    /\ pc' = [pc EXCEPT ![p] = "speak"]
    /\ UNCHANGED <<phase, whisper_model, cfgVars, scriptVars, loop, route, audio_data, text,
                   transcription, llm_response, audio_response, tmp_path, exc,
                   speakExc, proc, resp, wsVars, log, requests>>

\* the /tts route after speak returned: read the bytes, unlink the file
TtsRead(p) ==
    /\ route[p] = "tts"
    /\ pc[p] = "tts_read"
    /\ loop = p
    /\ audio_response' = [audio_response EXCEPT ![p] = files[out_path[p]]]
    /\ files' = [files EXCEPT ![out_path[p]] = Absent]
    /\ pc' = [pc EXCEPT ![p] = "respond"]
    /\ UNCHANGED <<phase, whisper_model, cfgVars, scriptVars, loop, route, audio_data, text,
                   transcription, llm_response, tmp_path, out_path, exc, speakExc, proc, resp,
                   wsVars, log, requests>>

\* -------------------------------------------- websocket_voice_endpoint
Msg(type, off, n) == [type |-> type, off |-> off, len |-> n]

\* variant: every slice is taken to be a full one
Min_Left(a, b) == a

Min(a, b) == IF a < b THEN a ELSE b

\* a send on the channel succeeds only while the client is there, and may
\* fail even then
SendOutcomes == IF connected THEN {TRUE, FALSE} ELSE {FALSE}

\* variant: the disconnect cancels the handler where it is
ClientDisconnect_Cancels ==
    /\ connected
    /\ pc["ws"] # "closed"
    /\ connected' = FALSE
    /\ channel' = "Closed"
    /\ pc' = [pc EXCEPT !["ws"] = "closed"]
    /\ loop' = IF loop = "ws" THEN "idle" ELSE loop
    /\ UNCHANGED <<phase, whisper_model, cfgVars, scriptVars, files, route,
                   localVars, resp, sent, i, turns, log, requests>>

\* the client goes away; the handler learns of it at its next send or receive
ClientDisconnect ==
    /\ connected
    /\ pc["ws"] # "closed"
    /\ connected' = FALSE
    /\ UNCHANGED <<phase, whisper_model, cfgVars, scriptVars, files, loop, pc, route,
                   localVars, resp, channel, sent, i, turns, log, requests>>

\* the client has read the messages of the turn that ended
TurnDelivered ==
    /\ pc["ws"] \in {"recv", "closed"}
    /\ sent # <<>> \/ log["ws"] # <<>>
    /\ sent' = <<>>
    /\ log' = [log EXCEPT !["ws"] = <<>>]
    /\ UNCHANGED <<phase, whisper_model, cfgVars, scriptVars, files, loop, pc, route, localVars,
                   resp, channel, connected, i, turns, requests>>

\* `audio_data = await websocket.receive_bytes()` delivers a binary frame
WsReceive ==
    /\ phase = "running"
    /\ pc["ws"] = "recv"
    /\ loop = "idle"
    /\ connected
    /\ turns < MaxTurns
    /\ overlap \/ (pc["h1"] = "idle" /\ resp = NoResp)
    /\ sent = <<>> /\ log["ws"] = <<>>
    /\ \E b \in Payloads : Locals("ws", b, <<>>)
    /\ log' = [log EXCEPT !["ws"] = <<>>]
    /\ pc' = [pc EXCEPT !["ws"] = "transcribe_audio"]
    /\ loop' = "ws"
    /\ sent' = <<>>
    /\ i' = 0
    /\ turns' = turns + 1
    /\ UNCHANGED <<phase, whisper_model, cfgVars, scriptVars, files, route, resp,
                   channel, connected, requests>>

\* variant: the outer except clauses sit inside the loop
AfterDisconnect_Loop == "recv"

\* where the handler is after the outer except clauses: past the end of the
\* `while True` loop, the function returns
AfterDisconnect == "closed"

\* an exception reaches the outer except clauses; when the handler returns,
\* the server closes the connection
HandlerLeavesLoop ==
    /\ channel' = "Closed"
    /\ pc' = [pc EXCEPT !["ws"] = AfterDisconnect]
    /\ connected' = (connected /\ AfterDisconnect # "closed")

\* receive_bytes raises: WebSocketDisconnect, or another transport error;
\* both leave the `while True` loop through the outer except clauses
WsReceiveRaises ==
    /\ phase = "running"
    /\ pc["ws"] = "recv"
    /\ loop = "idle"
    /\ HandlerLeavesLoop
    /\ UNCHANGED <<phase, whisper_model, cfgVars, scriptVars, files, loop, route,
                   localVars, resp, sent, i, turns, log, requests>>

\* the inner `except Exception` of a turn catches what an adapter raised
WsExcept ==
    /\ pc["ws"] = "raised"
    /\ loop = "ws"
    /\ pc' = [pc EXCEPT !["ws"] = "send_error"]
    /\ loop' = "idle"
    /\ UNCHANGED <<phase, whisper_model, cfgVars, scriptVars, files, route, localVars,
                   resp, wsVars, log, requests>>

\* variant: a failed send ends the handler
SendRaises_Return ==
    /\ exc' = [exc EXCEPT !["ws"] = Raised("SendError", "send failed")]
    /\ pc' = [pc EXCEPT !["ws"] = "closed"]
    /\ UNCHANGED <<sent, i, loop, audio_data, text, transcription, llm_response,
                   audio_response, tmp_path, out_path, speakExc, proc>>

\* variant: a failed send is tried again
SendRaises_Retry ==
    UNCHANGED <<exc, pc, sent, i, loop, audio_data, text, transcription, llm_response,
                audio_response, tmp_path, out_path, speakExc, proc>>

\* a send inside the try block raised: the inner except clause is entered
SendRaises ==
    /\ exc' = [exc EXCEPT !["ws"] = Raised("SendError", "send failed")]
    /\ pc' = [pc EXCEPT !["ws"] = "send_error"]
    /\ UNCHANGED <<sent, i, loop, audio_data, text, transcription, llm_response,
                   audio_response, tmp_path, out_path, speakExc, proc>>

\* send_json({"type": "text_response", ...}), then synthesize_speech is called
WsSendText ==
    /\ pc["ws"] = "send_text"
    /\ loop = "idle"
    /\ \E ok \in SendOutcomes :
         IF ok
         THEN /\ sent' = Append(sent, Msg("text_response", 0, 0))
              /\ pc' = [pc EXCEPT !["ws"] = "synthesize_speech"]
              /\ loop' = "ws"
              /\ UNCHANGED <<localVars, i>>
         ELSE SendRaises
    /\ UNCHANGED <<phase, whisper_model, cfgVars, scriptVars, files, route, resp, channel,
                   connected, turns, log, requests>>

\* one iteration of `for i in range(0, len(audio_response), chunk_size)`
WsSendChunk ==
    /\ pc["ws"] = "send_chunk"
    /\ loop = "idle"
    /\ \E ok \in SendOutcomes :
         IF ok
         THEN /\ sent' = Append(sent, Msg("chunk", i,
                                          Min(chunk_size, audio_response["ws"].len - i)))
              /\ i' = i + chunk_size
              /\ pc' = [pc EXCEPT !["ws"] =
                          IF i + chunk_size < audio_response["ws"].len
                          THEN "send_chunk" ELSE "send_complete"]
              /\ UNCHANGED <<localVars, loop>>
         ELSE SendRaises
    /\ UNCHANGED <<phase, whisper_model, cfgVars, scriptVars, files, route, resp, channel,
                   connected, turns, log, requests>>

\* send_json({"type": "audio_complete"}), then back to receive_bytes
WsSendComplete ==
    /\ pc["ws"] = "send_complete"
    /\ loop = "idle"
    /\ \E ok \in SendOutcomes :
         IF ok
         THEN /\ sent' = Append(sent, Msg("audio_complete", 0, 0))
              /\ pc' = [pc EXCEPT !["ws"] = "recv"]
              /\ Locals("ws", <<>>, <<>>)
              /\ i' = 0
              /\ UNCHANGED loop
         ELSE SendRaises
    /\ UNCHANGED <<phase, whisper_model, cfgVars, scriptVars, files, route, resp, channel,
                   connected, turns, log, requests>>

\* variant: the handler returns after the error message
AfterErrorSent_Close == "closed"

\* after the inner except clause the `while True` loop goes on
AfterErrorSent == "recv"

\* send_json({"type": "error", ...}) in the inner except clause; if it raises,
\* the outer except clauses end the handler
WsSendError ==
    /\ pc["ws"] = "send_error"
    /\ loop = "idle"
    /\ \E ok \in SendOutcomes :
         IF ok
         THEN /\ sent' = Append(sent, Msg("error", 0, 0))
              /\ pc' = [pc EXCEPT !["ws"] = AfterErrorSent]
              /\ UNCHANGED <<channel, connected>>
         ELSE /\ HandlerLeavesLoop
              /\ UNCHANGED sent
    /\ Locals("ws", <<>>, <<>>)
    /\ i' = 0
    /\ UNCHANGED <<phase, whisper_model, cfgVars, scriptVars, files, loop, route, resp, turns, log,
                   requests>>

\* ------------------------------------------------------ status routes
\* the handlers of "/" and "/health" read the two globals and return at once,
\* without an await: their responses are functions of the current state
root ==
    [status |-> "online",
     whisper |-> IF WHISPER_AVAILABLE /\ whisper_model # None THEN "loaded"
                 ELSE "not available",
     gemini |-> IF ~Falsy(GEMINI_API_KEY) THEN "configured" ELSE "not configured"]

health_check ==
    [status |-> "healthy",
     whisper |-> whisper_model # None,
     gemini |-> GEMINI_API_KEY # None]

\* --------------------------------------------------------------- system
Next ==
    \/ Startup
    \/ Shutdown
    \/ \E p \in Procs : StartRequest(p)
    \/ \E p \in Procs : ResponseDelivered(p)
    \/ \E p \in Procs : RouteRespond(p)
    \/ \E p \in Procs : RouteExcept(p)
    \/ \E p \in Procs : TranscribeBegin(p)
    \/ \E p \in Procs : TranscribeResume(p)
    \/ \E p \in Procs : GenerateBegin(p)
    \/ \E p \in Procs : GenerateResume(p)
    \/ \E p \in Procs : SynthesizeBegin(p)
    \/ \E p \in Procs : SpeakBegin(p)
    \/ \E p \in Procs : SpeakRun(p)
    \/ \E p \in Procs : SynthesizeResume(p)
    \/ \E p \in Procs : TtsMktemp(p)
    \/ \E p \in Procs : TtsRead(p)
    \/ ClientDisconnect
    \/ TurnDelivered
    \/ WsReceive
    \/ WsReceiveRaises
    \/ WsExcept
    \/ WsSendText
    \/ WsSendChunk
    \/ WsSendComplete
    \/ WsSendError

Spec == Init /\ [][Next]_vars

\* ------------------------------------------------------ fair scheduling
\* the steps of the channel handler between `receive_bytes` returning and the
\* next `receive_bytes`: each stage call and each send returns or raises, and
\* the event loop resumes a coroutine whose await has completed
TurnStep ==
    \/ TranscribeBegin("ws")
    \/ TranscribeResume("ws")
    \/ GenerateBegin("ws")
    \/ GenerateResume("ws")
    \/ SynthesizeBegin("ws")
    \/ SpeakBegin("ws")
    \/ SpeakRun("ws")
    \/ SynthesizeResume("ws")
    \/ WsExcept
    \/ WsSendText
    \/ WsSendChunk
    \/ WsSendComplete
    \/ WsSendError

SpecFair == Init /\ [][Next]_vars /\ WF_vars(TurnStep)

\* ------------------------------------------- overlapping invocations
\* requests arrive while a channel turn is in progress and the other way round
InitOverlap ==
    /\ Boot
    /\ WHISPER_AVAILABLE \in BOOLEAN
    /\ GEMINI_API_KEY = "key"
    /\ exeExists = TRUE
    /\ modelExists = TRUE
    /\ overlap = TRUE
    /\ backend = NoBackend

NextOverlap ==
    \/ Startup
    \/ Shutdown
    \/ \E p \in Procs : StartRequest(p)
    \/ \E p \in Procs : ResponseDelivered(p)
    \/ \E p \in Procs : RouteRespond(p)
    \/ \E p \in Procs : RouteExcept(p)
    \/ \E p \in Procs : TranscribeBegin(p)
    \/ \E p \in Procs : TranscribeResume(p)
    \/ \E p \in Procs : GenerateBegin(p)
    \/ \E p \in Procs : GenerateResume(p)
    \/ \E p \in Procs : SynthesizeBegin(p)
    \/ \E p \in Procs : SpeakBegin(p)
    \/ \E p \in Procs : SpeakRun(p)
    \/ \E p \in Procs : SynthesizeResume(p)
    \/ \E p \in Procs : TtsMktemp(p)
    \/ \E p \in Procs : TtsRead(p)
    \/ ClientDisconnect
    \/ TurnDelivered
    \/ turns < MaxOverlapTurns /\ WsReceive
    \/ WsReceiveRaises
    \/ WsExcept
    \/ WsSendText
    \/ WsSendChunk
    \/ WsSendComplete
    \/ WsSendError

SpecOverlap == InitOverlap /\ [][NextOverlap]_vars

\* --------------------------------------------------- scripted client
\* one client, deterministic backends: the combined route first, then the
\* three single routes, each fed with the result of the one before
Script == <<"voice_chat_complete", "transcribe", "chat", "synthesize">>

Call(r, b, t) == [route |-> r, audio |-> b, text |-> t, resp |-> NoResp]

InitCompose ==
    /\ Boot
    /\ WHISPER_AVAILABLE \in BOOLEAN
    /\ GEMINI_API_KEY \in ApiKeys
    /\ exeExists \in BOOLEAN
    /\ modelExists = TRUE
    /\ overlap = FALSE
    /\ backend \in Backends

\* the client sends the next request of the script; it goes on to chat and
\* to synthesize only with the text of a successful response
ComposeCall(p) ==
    /\ p = "h1"
    /\ phase = "running"
    /\ pc[p] = "idle"
    /\ loop = "idle"
    /\ resp = NoResp
    /\ Len(calls) < Len(Script)
    /\ calls # <<>> => calls[Len(calls)].resp # NoResp
    /\ Len(calls) >= 2 => calls[Len(calls)].resp.status = 200
    /\ LET r == Script[Len(calls) + 1]
           t == IF Len(calls) < 2 THEN <<>> ELSE calls[Len(calls)].resp.text
       IN
         /\ route' = [route EXCEPT ![p] = r]
         /\ pc' = [pc EXCEPT ![p] = FirstPc(r)]
         /\ IF r \in {"voice_chat_complete", "transcribe"}
            THEN \E b \in (IF calls = <<>> THEN Payloads ELSE {calls[1].audio}) :
                   /\ calls' = Append(calls, Call(r, b, <<>>))
                   /\ Locals(p, b, <<>>)
            ELSE /\ calls' = Append(calls, Call(r, <<>>, t))
                 /\ Locals(p, <<>>, t)
    /\ log' = [log EXCEPT ![p] = <<>>]
    /\ loop' = p
    /\ UNCHANGED <<phase, whisper_model, cfgVars, backend, files, resp, wsVars, requests>>

\* the client reads the response
ComposeAnswer(p) ==
    /\ p = "h1"
    /\ pc[p] = "idle"
    /\ resp # NoResp
    /\ calls' = [calls EXCEPT ![Len(calls)].resp = resp]
    /\ resp' = NoResp
    /\ route' = [route EXCEPT ![p] = "none"]
    /\ log' = [log EXCEPT ![p] = <<>>]
    /\ UNCHANGED <<phase, whisper_model, cfgVars, backend, files, loop, pc, localVars,
                   wsVars, requests>>

\* whisper_model.transcribe does with the payload what backend.stt says
DetTranscribe(p) ==
    /\ TranscribeResume(p)
    /\ LET o == backend.stt[audio_data[p]] IN
         IF o.ok THEN /\ pc'[p] # "raised"
                      /\ transcription'[p] = Strip(Join(o.segments))
         ELSE pc'[p] = "raised"

\* generate_content does with the prompt what backend.llm says
DetGenerate(p) ==
    /\ GenerateResume(p)
    /\ LET o == backend.llm[UserText(p)] IN
         llm_response'[p] = IF o.ok THEN Strip(o.raw) ELSE ErrorReply

\* the executable does what backend.tts says
DetSpeak(p) ==
    /\ SpeakRun(p)
    /\ LET o == backend.tts IN
         IF ~o.launched THEN proc'[p] = NoProc /\ speakExc'[p] # NoExc
         ELSE /\ proc'[p] = Completed(o.returncode, o.stdout, o.stderr)
              /\ o.returncode = 0 =>
                   /\ files'[out_path[p]].kind = o.kind
                   /\ files'[out_path[p]].len = o.len

NextCompose ==
    \/ Startup
    \/ \E p \in Procs : ComposeCall(p)
    \/ \E p \in Procs : ComposeAnswer(p)
    \/ \E p \in Procs : RouteRespond(p)
    \/ \E p \in Procs : RouteExcept(p)
    \/ \E p \in Procs : TranscribeBegin(p)
    \/ \E p \in Procs : DetTranscribe(p)
    \/ \E p \in Procs : GenerateBegin(p)
    \/ \E p \in Procs : DetGenerate(p)
    \/ \E p \in Procs : SynthesizeBegin(p)
    \/ \E p \in Procs : SpeakBegin(p)
    \/ \E p \in Procs : DetSpeak(p)
    \/ \E p \in Procs : SynthesizeResume(p)

SpecCompose == InitCompose /\ [][NextCompose]_vars

\* ------------------------------------------------------- twin client
\* one client, a deterministic executable: the same text goes to
\* /api/synthesize and then to /tts; the client keeps each response and the
\* files the request left on disk
TwinScript == <<"synthesize", "tts">>

TwinCallRec(r, t) == [route |-> r, text |-> t, resp |-> NoResp, left |-> {}]

InitTwin ==
    /\ Boot
    /\ WHISPER_AVAILABLE = FALSE
    /\ GEMINI_API_KEY = None
    /\ exeExists \in BOOLEAN
    /\ modelExists \in BOOLEAN
    /\ overlap = FALSE
    /\ backend \in {[NoBackend EXCEPT !.tts = o] : o \in TtsOutcomes}

\* the files on disk that no earlier request of the script left there
LeftBehind ==
    {n \in Names : /\ files[n] # Absent
                   /\ \A k \in 1 .. (Len(calls) - 1) : n \notin calls[k].left}

TwinCall(p) ==
    /\ p = "h1"
    /\ phase = "running"
    /\ pc[p] = "idle"
    /\ loop = "idle"
    /\ resp = NoResp
    /\ Len(calls) < Len(TwinScript)
    /\ calls # <<>> => calls[Len(calls)].resp # NoResp
    /\ LET r == TwinScript[Len(calls) + 1] IN
         /\ route' = [route EXCEPT ![p] = r]
         /\ pc' = [pc EXCEPT ![p] = FirstPc(r)]
         /\ \E t \in (IF calls = <<>> THEN RequestTexts ELSE {calls[1].text}) :
              /\ calls' = Append(calls, TwinCallRec(r, t))
              /\ Locals(p, <<>>, t)
    /\ log' = [log EXCEPT ![p] = <<>>]
    /\ loop' = p
    /\ UNCHANGED <<phase, whisper_model, cfgVars, backend, files, resp, wsVars, requests>>

\* the client reads the response and looks at the disk
TwinAnswer(p) ==
    /\ p = "h1"
    /\ pc[p] = "idle"
    /\ resp # NoResp
    /\ calls' = [calls EXCEPT ![Len(calls)].resp = resp,
                              ![Len(calls)].left = LeftBehind]
    /\ resp' = NoResp
    /\ route' = [route EXCEPT ![p] = "none"]
    /\ log' = [log EXCEPT ![p] = <<>>]
    /\ UNCHANGED <<phase, whisper_model, cfgVars, backend, files, loop, pc, localVars,
                   wsVars, requests>>

NextTwin ==
    \/ Startup
    \/ \E p \in Procs : TwinCall(p)
    \/ \E p \in Procs : TwinAnswer(p)
    \/ \E p \in Procs : RouteRespond(p)
    \/ \E p \in Procs : RouteExcept(p)
    \/ \E p \in Procs : SynthesizeBegin(p)
    \/ \E p \in Procs : TtsMktemp(p)
    \/ \E p \in Procs : SpeakBegin(p)
    \/ \E p \in Procs : DetSpeak(p)
    \/ \E p \in Procs : SynthesizeResume(p)
    \/ \E p \in Procs : TtsRead(p)

SpecTwin == InitTwin /\ [][NextTwin]_vars

TypeOK ==
    /\ phase \in {"startup", "running", "failed", "stopped"}
    /\ whisper_model \in {None, Loaded}
    /\ loop \in Procs \cup {"idle"}
    /\ turns \in 0 .. MaxTurns
    /\ requests \in 0 .. MaxRequests

\* ============================================================ properties
Last(q) == q[Len(q)]

InLog(p, e) == \E k \in DOMAIN log[p] : log[p][k] = e

Occurrences(q, e) == Cardinality({k \in DOMAIN q : q[k] = e})

\* position of the first occurrence of e in q, 0 if there is none
FirstIndex(q, e) ==
    IF \E k \in DOMAIN q : q[k] = e
    THEN CHOOSE k \in DOMAIN q : q[k] = e /\ \A j \in DOMAIN q : q[j] = e => k <= j
    ELSE 0

SentCount(t) == Cardinality({k \in DOMAIN sent : sent[k].type = t})

\* an adapter raised to the channel handler in the turn on record
StageRaised ==
    InLog("ws", "transcribe_audio:raise") \/ InLog("ws", "synthesize_speech:raise")

\* the handler is between turns (or gone) and the last turn is still on record
TurnEnded == pc["ws"] \in {"recv", "closed"} /\ log["ws"] # <<>>

\* text_response, one or more chunks, audio_complete
AudioSequence(q) ==
    /\ Len(q) >= 3
    /\ q[1].type = "text_response"
    /\ \A k \in 2 .. (Len(q) - 1) : q[k].type = "chunk"
    /\ Last(q).type = "audio_complete"

\* C1: on the realtime channel, a turn whose stages and sends all succeed emits
\* exactly one text_response, then one or more binary chunks, then exactly one
\* audio_complete, and the handler is back at receive only after audio_complete
C1_SuccessfulTurn ==
    (/\ pc["ws"] = "recv"
     /\ log["ws"] # <<>>
     /\ SentCount("error") = 0)
    => AudioSequence(sent)

C1_Witness ==
    /\ pc["ws"] = "recv"
    /\ Len(sent) = 4
    /\ AudioSequence(sent)

\* C2 as stated: whenever a stage raised in a turn, that turn ends with exactly
\* one error message sent (and the handler waiting for the next frame)
C2_ErrorAlwaysSent ==
    (TurnEnded /\ StageRaised) => SentCount("error") = 1

\* C2 amended: after a stage raised the handler attempts one error send; if the
\* send succeeds the handler is back at receive with the channel Open, if it
\* raises the handler closes; a turn with a raised stage ends in one of the two
C2_ErrorSendDecides ==
    /\ [](TurnEnded /\ StageRaised =>
            \/ SentCount("error") = 1 /\ Last(sent).type = "error"
            \/ SentCount("error") = 0 /\ channel = "Closed")
    /\ [][pc["ws"] = "send_error" /\ pc'["ws"] # "send_error" =>
            \/ /\ sent' = Append(sent, Msg("error", 0, 0))
               /\ pc'["ws"] = "recv"
               /\ channel' = "Open"
            \/ /\ sent' = sent
               /\ pc'["ws"] = "closed"
               /\ channel' = "Closed"]_vars

\* a turn whose recognition raised was answered by an error and the next
\* frame went through all three stages
C2_Witness ==
    /\ turns = 2
    /\ requests = 0
    /\ \E n \in Names : files[n].kind = "upload"
    /\ pc["ws"] = "recv"
    /\ AudioSequence(sent)

C4_ClosedIsFinal ==
    [][channel = "Closed" =>
         /\ channel' = "Closed"
         /\ pc'["ws"] = pc["ws"]
         /\ turns' = turns
         /\ sent' = sent \/ sent' = <<>>
         /\ log'["ws"] = log["ws"] \/ log'["ws"] = <<>>]_vars

C4_Witness ==
    /\ channel = "Closed"
    /\ pc["ws"] = "closed"
    /\ turns = 1
    /\ pc["h1"] = "transcribe_audio"

StageStarts == {"transcribe_audio", "generate_llm_response", "synthesize_speech"}
StageRaises == {"transcribe_audio:raise", "synthesize_speech:raise"}

\* the handler invocation of p is running (its locals are alive)
Active(p) == pc[p] \notin {"idle", "recv", "closed"}

LastIs(p, events) == log[p] # <<>> /\ Last(log[p]) \in events

\* C5: within one voice-chat or voice-chat-complete request or one channel turn
\* the stages start in the order recognize, generate, synthesize, each at most
\* once, each only after the previous one returned, and none after a raise
C5_StagesInSequence ==
    \A p \in Procs :
      route[p] \in {"voice_chat", "voice_chat_complete", "ws"} =>
        LET q == log[p] IN
        /\ \A e \in StageStarts : Occurrences(q, e) <= 1
        /\ InLog(p, "generate_llm_response") =>
             /\ 0 < FirstIndex(q, "transcribe_audio:return")
             /\ FirstIndex(q, "transcribe_audio:return") < FirstIndex(q, "generate_llm_response")
        /\ InLog(p, "synthesize_speech") =>
             /\ 0 < FirstIndex(q, "generate_llm_response:return")
             /\ FirstIndex(q, "generate_llm_response:return") < FirstIndex(q, "synthesize_speech")
        /\ \A k \in DOMAIN q : q[k] \in StageRaises =>
             \A j \in DOMAIN q : j > k => q[j] \notin StageStarts

C5_Witness ==
    /\ route["h1"] = "voice_chat_complete"
    /\ pc["h1"] = "respond"
    /\ Occurrences(log["h1"], "transcribe_audio") = 1
    /\ Occurrences(log["h1"], "generate_llm_response") = 1
    /\ Occurrences(log["h1"], "synthesize_speech") = 1

\* C6: with the recognition handle uninitialized, transcribe_audio fails with
\* status 503 for every payload, writes no temporary file and does not call
\* the recognition backend
C6_UninitializedHandle ==
    [][\A p \in Procs :
         (pc[p] = "transcribe_audio" /\ pc'[p] # "transcribe_audio" /\ whisper_model = None) =>
           /\ pc'[p] = "raised"
           /\ exc'[p] = HTTPException(503, "Whisper model not loaded", "")
           /\ files' = files
           /\ \A k \in DOMAIN log'[p] :
                log'[p][k] \notin {"tmp_written", "whisper.transcribe"}]_vars

C6_Witness ==
    \E p \in Procs :
      /\ whisper_model = None
      /\ pc[p] = "raised"
      /\ exc[p].status = 503
      /\ audio_data[p] = <<"R", "I", "F", "F">>

NoCredential == GEMINI_API_KEY = None \/ GEMINI_API_KEY = ""

\* C8: with no generation credential configured, generate_llm_response returns
\* the fixed fallback string for every input, the empty string included, and
\* never calls the remote service
C8_NoCredentialFallback ==
    NoCredential =>
      /\ \A p \in Procs :
           /\ ~InLog(p, "generate_content")
           /\ (Active(p) /\ InLog(p, "generate_llm_response:return")) =>
                llm_response[p] = NoKeyReply
      /\ (route["h1"] \in {"chat", "voice_chat"} /\ resp.status = 200) =>
           resp.text = NoKeyReply

C8_Witness ==
    /\ NoCredential
    /\ route["h1"] = "chat"
    /\ pc["h1"] = "respond"
    /\ UserText("h1") = <<>>
    /\ llm_response["h1"] = NoKeyReply

ErrorOrigins == {"Whisper model not loaded", "Transcription failed",
                 "Speech synthesis failed", "send failed"}

\* C9: generate_llm_response never raises; when the remote call fails it
\* returns the apology string (not the no-credential string), the chat route
\* answers 200, and every error of a voice route or of the channel comes from
\* recognition, synthesis or a send, while the pipeline goes on after the reply
C9_GeneratorNeverRaises ==
    /\ ErrorReply # NoKeyReply
    /\ \A p \in Procs :
         /\ ~InLog(p, "generate_llm_response:raise")
         /\ (Active(p) /\ InLog(p, "generate_content:raise")) =>
              llm_response[p] = ErrorReply
         /\ LastIs(p, {"generate_llm_response:return"}) /\ Active(p) =>
              /\ exc[p].type \in {"none", "SendError"}
              /\ pc[p] # "raised"
         /\ (route[p] # "tts" /\ exc[p] # NoExc) => exc[p].detail \in ErrorOrigins
    /\ route["h1"] = "chat" =>
         /\ pc["h1"] # "raised"
         /\ resp.status \in {0, 200}
    /\ (route["h1"] # "tts" /\ resp.status = 500) => resp.detail.detail \in ErrorOrigins

C9_Witness ==
    /\ InLog("ws", "generate_content:raise")
    /\ pc["ws"] = "recv"
    /\ AudioSequence(sent)

\* speak has just returned or raised in the invocation of p
SpeakEnded(p) ==
    /\ pc[p] \in {"await_speak", "tts_read", "raised"}
    /\ LastIs(p, {"speak:return", "speak:raise"})

C11_PathAbsentFails ==
    \A p \in Procs :
      (SpeakEnded(p) /\ (~exeExists \/ ~modelExists)) =>
        /\ speakExc[p].type = "FileNotFoundError"
        /\ ~InLog(p, "subprocess.run")

\* C11 amended: the subprocess is started only with both paths present; with a
\* path absent speak starts no subprocess and creates no output file, and it
\* fails with FileNotFoundError (naming the executable first) when the text has
\* a non-blank character, with ValueError when the text is empty or blank
C11_PathsCheckedFirst ==
    \A p \in Procs :
      /\ InLog(p, "subprocess.run") => exeExists /\ modelExists
      /\ (SpeakEnded(p) /\ (~exeExists \/ ~modelExists)) =>
           /\ ~InLog(p, "subprocess.run")
           /\ route[p] # "tts" => out_path[p] = NoPath
           /\ IF Strip(SpeakText(p)) = <<>>
              THEN speakExc[p].type = "ValueError"
              ELSE /\ speakExc[p].type = "FileNotFoundError"
                   /\ speakExc[p].detail = IF ~exeExists THEN "Piper executable not found"
                                           ELSE "Piper model not found"

C11_Witness ==
    \E p \in Procs :
      /\ SpeakEnded(p)
      /\ exeExists /\ ~modelExists
      /\ SpeakText(p) = <<"h", "i">>
      /\ speakExc[p] = Raised("FileNotFoundError", "Piper model not found")

SynthesisInFlight(p) == pc[p] \in {"speak", "subprocess.run", "await_speak", "tts_read"}

\* C13: every synthesis output file (created by speak or by the /tts route)
\* that exists belongs to a synthesis still in flight: once the invocation has
\* ended, with success, a failure or an exception, its file is gone
C13_OutputFilesRemoved ==
    \A n \in Names :
      files[n].kind \in {"empty", "wav"} =>
        \E p \in Procs : SynthesisInFlight(p) /\ out_path[p] = n

C16_StatusPropagates ==
    (resp.status # 0 /\ resp.detail.type = "HTTPException") =>
      resp.status = resp.detail.status

\* recognition or synthesis has failed in the request on record
StageFailed(p) ==
    \/ InLog(p, "transcribe_audio:raise")
    \/ InLog(p, "synthesize_speech:raise")
    \/ InLog(p, "speak:raise")

\* C17: on a request/response route, once recognition or synthesis has failed
\* the handler only goes on to its except clause, and the response is a
\* server error that carries the condition and no transcript, reply or audio
C17_FailureIsServerError ==
    (route["h1"] \in Routes /\ StageFailed("h1")) =>
      /\ pc["h1"] \in {"await_speak", "raised", "idle"}
      /\ pc["h1"] # "idle" => resp = NoResp
      /\ pc["h1"] = "idle" =>
           /\ resp.status >= 500
           /\ resp.detail # NoExc
           /\ resp.text = <<>>
           /\ resp.transcription = <<>>
           /\ resp.audio = EmptyFile

C17_Witness ==
    /\ route["h1"] = "voice_chat_complete"
    /\ InLog("h1", "generate_llm_response:return")
    /\ InLog("h1", "synthesize_speech:raise")
    /\ pc["h1"] = "idle"
    /\ resp.status = 500

\* C18: while a recognition, generation or synthesis call of p is in flight,
\* p does not hold the event loop: the call runs on a pool thread
C18_CallsOffTheLoop ==
    \A p \in Procs :
      pc[p] \in {"await_transcribe", "await_generate", "subprocess.run"} => loop # p

\* positions of the channel handler inside one of the three stages
StagePcs == {"transcribe_audio", "await_transcribe", "generate_llm_response",
             "await_generate", "synthesize_speech", "speak", "subprocess.run",
             "await_speak"}

\* C20: a client disconnect while a stage of the channel is in flight changes
\* nothing of the handler; the stage goes on to its own return or raise whether
\* or not the client is still there, and the channel becomes Closed only at a
\* receive or at the error send
C20_DisconnectDoesNotAbort ==
    [][/\ (pc["ws"] \in StagePcs /\ connected /\ ~connected') =>
            /\ pc' = pc
            /\ log' = log
            /\ files' = files
            /\ channel' = channel
            /\ sent' = sent
            /\ <<transcription, llm_response, audio_response, exc>>' =
                 <<transcription, llm_response, audio_response, exc>>
       /\ pc["ws"] \in StagePcs =>
            /\ pc'["ws"] \in StagePcs \cup {"raised", "send_text", "send_chunk",
                                            "send_complete"}
            /\ channel' = "Open"
       /\ (channel = "Open" /\ channel' = "Closed") => pc["ws"] \in {"recv", "send_error"}
      ]_vars

\* the client left during synthesis and speak has returned all the same
C20_Witness ==
    /\ ~connected
    /\ channel = "Open"
    /\ pc["ws"] = "await_speak"
    /\ LastIs("ws", {"speak:return"})
    /\ Len(sent) = 1

\* C19: the recognition handle is written once, by start-up (None to the
\* loaded model), and once more by shutdown; start-up never runs again, and
\* while the server is running no step of a route or of a channel turn changes
\* the handle, however the two interleave
C19_HandleReadOnly ==
    [][/\ whisper_model' # whisper_model =>
            \/ phase = "startup" /\ whisper_model = None /\ whisper_model' = Loaded
            \/ phase = "running" /\ phase' = "stopped" /\ whisper_model' = None
       /\ phase # "startup" => phase' # "startup"
       /\ (phase = "running" /\ phase' = "running") => whisper_model' = whisper_model
      ]_vars

\* a request and a channel turn both wait for the recognition backend
C19_Witness ==
    /\ overlap
    /\ whisper_model = Loaded
    /\ pc["ws"] = "await_transcribe"
    /\ pc["h1"] = "await_transcribe"
    /\ tmp_path["ws"] # tmp_path["h1"]

\* the script has run as far as it goes
ComposeDone ==
    /\ pc["h1"] = "idle"
    /\ resp = NoResp
    /\ Len(calls) >= 2
    /\ calls[Len(calls)].resp # NoResp
    /\ Len(calls) = Len(Script) \/ calls[Len(calls)].resp.status # 200

\* C14: with deterministic backends, for every payload the combined route
\* succeeds exactly when transcribe, chat on that transcript and synthesize on
\* that reply all succeed, and then it returns the same transcript, the same
\* reply, and the base64 encoding of the synthesize route's audio
C14_ComposeEquivalent ==
    ComposeDone =>
      LET combined == calls[1].resp
          separate == /\ Len(calls) = Len(Script)
                      /\ \A k \in 2 .. Len(calls) : calls[k].resp.status = 200
      IN
        /\ calls[2].audio = calls[1].audio
        /\ (combined.status = 200) <=> separate
        /\ combined.status = 200 =>
             /\ combined.transcription = calls[2].resp.text
             /\ calls[3].text = calls[2].resp.text
             /\ combined.text = calls[3].resp.text
             /\ calls[4].text = calls[3].resp.text
             /\ combined.audio =
                  [kind |-> "base64", data |-> calls[4].resp.audio.data,
                   len |-> 4 * ((calls[4].resp.audio.len + 2) \div 3)]
             /\ calls[4].resp.audio.kind = "wav"
        /\ combined.status # 200 => combined.status = 500

C14_Witness ==
    /\ ComposeDone
    /\ Len(calls) = Len(Script)
    /\ calls[1].resp.status = 200
    /\ calls[1].resp.transcription = <<"h", "i">>
    /\ calls[1].resp.text = <<"o", "k">>
    /\ calls[1].resp.audio.kind = "base64"
    /\ calls[4].resp.audio = Wav(<<"o", "k">>, chunk_size + 1)

\* the binary messages of the turn on record, in send order
Chunks == SelectSeq(sent, LAMBDA m : m.type = "chunk")

\* chunk k is the slice of the audio that starts where chunk k-1 ended
Contiguous(c) ==
    \A k \in DOMAIN c :
      /\ c[k].off = (k - 1) * chunk_size
      /\ c[k].len > 0
      /\ k < Len(c) => c[k].len = chunk_size

\* C21: the chunks of a turn are consecutive slices of the synthesized audio,
\* each of chunk_size bytes except the last, none empty; when the last one has
\* been sent they cover the audio exactly, the last has 1..chunk_size bytes and
\* their number is the audio length divided by chunk_size, rounded up
C21_ChunksCoverAudio ==
    /\ Contiguous(Chunks)
    /\ pc["ws"] = "send_chunk" =>
         /\ i = Len(Chunks) * chunk_size
         /\ i < audio_response["ws"].len
         /\ \A k \in DOMAIN Chunks : Chunks[k].len = chunk_size
    /\ pc["ws"] = "send_complete" =>
         LET n == audio_response["ws"].len
             c == Chunks
         IN /\ n > 0
            /\ Len(c) = (n + chunk_size - 1) \div chunk_size
            /\ c[Len(c)].len \in 1 .. chunk_size
            /\ c[Len(c)].off + c[Len(c)].len = n

C21_Witness ==
    /\ pc["ws"] = "send_complete"
    /\ audio_response["ws"].len = chunk_size + 1
    /\ Len(Chunks) = 2
    /\ Chunks[1] = Msg("chunk", 0, chunk_size)
    /\ Chunks[2] = Msg("chunk", chunk_size, 1)

\* C22: while the server is running, both status routes report the recognizer
\* as available exactly when transcribe_audio would pass its handle check, and
\* the generator as available exactly when generate_llm_response would call
\* the remote service; so the two routes agree
C22_FlagsMatchAdapters ==
    phase = "running" =>
      /\ health_check.whisper <=> ~HandleMissing
      /\ (root.whisper = "loaded") <=> ~HandleMissing
      /\ health_check.gemini <=> ~NotConfigured
      /\ (root.gemini = "configured") <=> ~NotConfigured


\* both requests of the twin script have been answered
TwinDone ==
    /\ pc["h1"] = "idle"
    /\ resp = NoResp
    /\ Len(calls) = Len(TwinScript)
    /\ calls[2].resp # NoResp

\* what a request left on disk, names aside
Contents(names) == {files[n] : n \in names}

\* C23: for the same text and the same behaviour of the executable,
\* /api/synthesize and /tts answer with the same status, on success with the
\* same audio, and leave the same files behind
C23_SameSemantics ==
    TwinDone =>
      /\ calls[2].text = calls[1].text
      /\ calls[2].resp.status = calls[1].resp.status
      /\ calls[2].resp.audio = calls[1].resp.audio
      /\ Cardinality(calls[2].left) = Cardinality(calls[1].left)
      /\ Contents(calls[2].left) = Contents(calls[1].left)

\* the part of C23 about the responses alone
C23_SameResponse ==
    TwinDone =>
      /\ calls[2].resp.status = calls[1].resp.status
      /\ calls[2].resp.audio = calls[1].resp.audio


\* text_response goes out after generation has returned and before
\* synthesize_speech is called
TextBetweenStages ==
    /\ pc["ws"] = "send_text" =>
         /\ LastIs("ws", {"generate_llm_response:return"})
         /\ sent = <<>>
    /\ SentCount("text_response") > 0 =>
         /\ sent[1].type = "text_response"
         /\ SentCount("text_response") = 1
         /\ InLog("ws", "generate_llm_response:return")
    /\ InLog("ws", "synthesize_speech") =>
         /\ sent # <<>>
         /\ sent[1].type = "text_response"
         /\ FirstIndex(log["ws"], "generate_llm_response:return")
              < FirstIndex(log["ws"], "synthesize_speech")

\* C24 as stated: text_response is sent between generation and synthesis; a
\* turn whose synthesis failed has sent exactly text_response then error, a
\* turn whose recognition failed exactly the error message
C24_TextThenOneError ==
    /\ TextBetweenStages
    /\ TurnEnded /\ InLog("ws", "synthesize_speech:raise") =>
         sent = <<Msg("text_response", 0, 0), Msg("error", 0, 0)>>
    /\ TurnEnded /\ InLog("ws", "transcribe_audio:raise") =>
         sent = <<Msg("error", 0, 0)>>

\* C24 (amended): text_response is sent between generation and synthesis; a
\* turn whose synthesis failed has sent one text_response followed by one
\* error message, or by nothing when the error send failed and the channel is
\* Closed; a turn whose recognition failed has sent only the error message,
\* or nothing with the channel Closed
C24_TextThenErrorAttempt ==
    /\ TextBetweenStages
    /\ TurnEnded /\ InLog("ws", "synthesize_speech:raise") =>
         \/ sent = <<Msg("text_response", 0, 0), Msg("error", 0, 0)>>
         \/ sent = <<Msg("text_response", 0, 0)>> /\ channel = "Closed"
    /\ TurnEnded /\ InLog("ws", "transcribe_audio:raise") =>
         \/ sent = <<Msg("error", 0, 0)>>
         \/ sent = <<>> /\ channel = "Closed"

\* synthesis failed after the text was sent, the error send failed too
C24_Witness ==
    /\ TurnEnded
    /\ InLog("ws", "synthesize_speech:raise")
    /\ sent = <<Msg("text_response", 0, 0)>>
    /\ channel = "Closed"


\* the text has no character other than white space
Blank(t) == \A k \in DOMAIN t : IsSpace(t[k])

\* with both paths present, speak raised for the generated reply without
\* starting the subprocess: it was given a blank text
BlankReply(p) ==
    /\ exeExists /\ modelExists
    /\ InLog(p, "generate_llm_response:return")
    /\ InLog(p, "speak:raise")
    /\ ~InLog(p, "subprocess.run")

\* speak gives a blank text ValueError, with no subprocess started and no
\* output file of its own, whether the paths are there or not
BlankRejectedFirst ==
    \A p \in Procs :
      /\ (SpeakEnded(p) /\ Blank(SpeakText(p))) =>
           /\ speakExc[p] = Raised("ValueError", "text must be a non-empty string")
           /\ ~InLog(p, "subprocess.run")
           /\ proc[p] = NoProc
           /\ route[p] # "tts" => out_path[p] = NoPath
      /\ (Active(p) /\ BlankReply(p)) => llm_response[p] = <<>>
      /\ (/\ Active(p)
          /\ route[p] \in {"ws", "voice_chat_complete"}
          /\ InLog(p, "generate_llm_response:return")
          /\ llm_response[p] = <<>>) =>
           pc[p] \in {"send_text", "synthesize_speech", "speak", "await_speak", "raised",
                      "send_error"}

\* the combined route answers an empty reply with the error response
BlankReplyIsServerError ==
    (/\ route["h1"] = "voice_chat_complete"
     /\ pc["h1"] = "idle"
     /\ resp # NoResp
     /\ BlankReply("h1")) =>
      /\ resp.status = 500
      /\ resp.detail = HTTPException(500, "Speech synthesis failed", "ValueError")

\* C25 as stated: speak rejects a blank text before anything else; with an
\* empty reply voice-chat-complete ends with an error response and a channel
\* turn ends with text_response followed by error
C25_BlankReplyEndsInError ==
    /\ BlankRejectedFirst
    /\ BlankReplyIsServerError
    /\ (TurnEnded /\ BlankReply("ws")) =>
         sent = <<Msg("text_response", 0, 0), Msg("error", 0, 0)>>

\* C25 (amended): speak rejects a blank text before anything else; with an
\* empty reply voice-chat-complete ends with an error response, and a channel
\* turn ends with text_response followed by error, or with text_response alone
\* and the channel Closed when the error send failed
C25_BlankReplyErrorAttempt ==
    /\ BlankRejectedFirst
    /\ BlankReplyIsServerError
    /\ (TurnEnded /\ BlankReply("ws")) =>
         \/ sent = <<Msg("text_response", 0, 0), Msg("error", 0, 0)>>
         \/ sent = <<Msg("text_response", 0, 0)>> /\ channel = "Closed"

\* a turn with an empty reply that ended with text_response, then error
C25_Witness ==
    /\ TurnEnded
    /\ BlankReply("ws")
    /\ pc["ws"] = "recv"
    /\ channel = "Open"
    /\ sent = <<Msg("text_response", 0, 0), Msg("error", 0, 0)>>


\* C26: when every stage call and every send returns or raises, a turn that
\* has accepted a frame ends; at the step that ends it exactly one of these
\* holds: audio_complete was sent, an error message was sent, the channel is
\* Closed; and the handler waits for a new frame only after audio_complete
\* or an error message
C26_TurnEnds ==
    /\ Active("ws") ~> ~Active("ws")
    /\ [][(Active("ws") /\ pc'["ws"] \in {"recv", "closed"}) =>
            LET nC == Cardinality({k \in DOMAIN sent' : sent'[k].type = "audio_complete"})
                nE == Cardinality({k \in DOMAIN sent' : sent'[k].type = "error"})
            IN \/ nC = 1 /\ nE = 0 /\ channel' = "Open" /\ pc'["ws"] = "recv"
                    /\ Last(sent').type = "audio_complete"
               \/ nC = 0 /\ nE = 1 /\ channel' = "Open" /\ pc'["ws"] = "recv"
                    /\ Last(sent').type = "error"
               \/ nC = 0 /\ nE = 0 /\ channel' = "Closed" /\ pc'["ws"] = "closed"]_vars
    /\ []((pc["ws"] = "recv" /\ log["ws"] # <<>>) =>
            /\ sent # <<>>
            /\ Last(sent).type \in {"audio_complete", "error"})

\* a turn that ended with the channel Closed in the middle of the audio
C26_Witness ==
    /\ pc["ws"] = "closed"
    /\ channel = "Closed"
    /\ InLog("ws", "synthesize_speech:return")
    /\ SentCount("chunk") = 1
    /\ SentCount("audio_complete") = 0
    /\ SentCount("error") = 0


\* the temporary files invocation p still reads, writes or removes: the upload
\* while the recognizer runs, the output file from its creation until speak
\* raises or the caller has read and unlinked it
Holds(p) ==
    (IF pc[p] = "await_transcribe" THEN {tmp_path[p]} ELSE {})
      \cup (IF \/ pc[p] \in {"subprocess.run", "tts_read"}
               \/ pc[p] = "speak" /\ out_path[p] # NoPath
               \/ pc[p] = "await_speak" /\ speakExc[p] = NoExc
            THEN {out_path[p]} ELSE {})

\* C27: however requests and channel turns interleave, the temporary files of
\* two invocations in flight are different files; a step of one invocation
\* creates, writes and removes only files of its own; the recognizer reads the
\* invocation's own payload and the audio returned is the one synthesized
\* from the invocation's own text
C27_OwnTempFiles ==
    /\ [](\A p \in Procs, q \in Procs : p # q => Holds(p) \cap Holds(q) = {})
    /\ [](\A p \in Procs : \A n \in Holds(p) : n \in Names /\ files[n] # Absent)
    /\ [](\A p \in Procs :
            /\ pc[p] = "await_transcribe" => files[tmp_path[p]] = Upload(audio_data[p])
            /\ (pc[p] = "tts_read" \/ (pc[p] = "await_speak" /\ speakExc[p] = NoExc)) =>
                 /\ files[out_path[p]].kind = "wav"
                 /\ files[out_path[p]].data = SpeakText(p)
            /\ (Active(p) /\ (InLog(p, "synthesize_speech:return")
                              \/ (route[p] = "tts" /\ pc[p] = "respond"))) =>
                 /\ audio_response[p].kind = "wav"
                 /\ audio_response[p].data = SpeakText(p))
    /\ [][\A n \in Names : files'[n] # files[n] =>
            \E p \in Procs : /\ pc'[p] # pc[p]
                             /\ n \in Holds(p) \cup Holds(p)'
                             /\ \A q \in Procs \ {p} : n \notin Holds(q)]_vars

\* a request and a channel turn both have their output file on disk, written
\* from different texts
C27_Witness ==
    /\ overlap
    /\ pc["ws"] = "await_speak" /\ speakExc["ws"] = NoExc
    /\ pc["h1"] = "await_speak" /\ speakExc["h1"] = NoExc
    /\ out_path["ws"] # out_path["h1"]
    /\ files[out_path["ws"]].data # files[out_path["h1"]].data


\* C28: a send that fails inside a turn (text_response, a chunk or
\* audio_complete) takes the handler to the error send of the inner except
\* clause with nothing added to what was sent; if the error send succeeds the
\* channel stays Open and the handler waits for the next frame, whatever part
\* of the audio sequence went out before, without audio_complete; only if the
\* error send fails too is the channel Closed
C28_SendFailureHandled ==
    /\ [][(/\ pc["ws"] \in {"send_text", "send_chunk", "send_complete"}
           /\ pc'["ws"] # pc["ws"]
           /\ sent' = sent) =>
            /\ pc'["ws"] = "send_error"
            /\ exc'["ws"] = Raised("SendError", "send failed")
            /\ channel' = "Open"]_vars
    /\ [][(pc["ws"] = "send_error" /\ pc'["ws"] # "send_error") =>
            \/ /\ sent' = Append(sent, Msg("error", 0, 0))
               /\ pc'["ws"] = "recv"
               /\ channel' = "Open"
            \/ /\ sent' = sent
               /\ pc'["ws"] = "closed"
               /\ channel' = "Closed"]_vars
    /\ [][(channel = "Open" /\ channel' = "Closed") =>
            pc["ws"] \in {"send_error", "recv"}]_vars
    /\ []((pc["ws"] = "send_error" /\ exc["ws"].type = "SendError") =>
            /\ SentCount("audio_complete") = 0
            /\ SentCount("error") = 0)

\* a chunk send failed after text_response and one chunk went out; the error
\* message was delivered and the handler waits for the next frame
C28_Witness ==
    /\ pc["ws"] = "recv"
    /\ channel = "Open"
    /\ Len(sent) = 3
    /\ sent[1].type = "text_response"
    /\ sent[2].type = "chunk"
    /\ sent[3].type = "error"

====
